---- MODULE Spec2Model ----
(***************************************************************************)
(* The out-of-line object heap of sled (src/src/heap.rs): 32 size-class    *)
(* slabs, each a file of fixed-size slots with an atomic tip and a         *)
(* lock-free free list, and the Reservation write protocol                  *)
(* reserve -> write_at -> sync_all -> callback -> HeapId.                   *)
(*                                                                         *)
(* The model is the `feature = "testing"` build (MIN_SZ = 32), so that a   *)
(* slot is 32 bytes and its content can be kept byte by byte.  64-bit      *)
(* words (sizes, HeapIds) are kept as the set of their set bit positions,  *)
(* which keeps their full width; slot indices, offsets and file lengths    *)
(* stay far below 2^31 and are plain naturals.                             *)
(***************************************************************************)
EXTENDS Integers, Sequences, FiniteSets, TLC

(***************************************************************************)
(* Bounds of the model.                                                    *)
(***************************************************************************)
\* concurrent callers (threads), each running one heap call at a time
NumThreads == 2
\* a slab's tip is not grown past this value (caps the u32 counter)
MaxTip == 2
\* the byte strings of the Bounds that are compared have at most this length
MaxKeyLen == 2
\* Heap::start runs again on the same directory at most this often
MaxRestarts == 1

Threads == 1..NumThreads

(***************************************************************************)
(* Program constants.                                                      *)
(***************************************************************************)
MIN_SZ == 32
NUM_SLABS == 32
SlabIds == 0..(NUM_SLABS - 1)

(***************************************************************************)
(* u64 words as sets of bit positions.                                     *)
(***************************************************************************)
SetMax(S) == CHOOSE m \in S : \A o \in S : o <= m
SetMin(S) == CHOOSE m \in S : \A o \in S : m <= o

\* the word of a natural below 2^31
U64(n) == {bp \in 0..30 : (n \div (2 ^ bp)) % 2 = 1}

RECURSIVE NatOf(_)
\* the natural of a word below 2^31
NatOf(w) == IF w = {} THEN 0
            ELSE LET hb == SetMax(w) IN (2 ^ hb) + NatOf(w \ {hb})

\* u64::trailing_zeros
trailing_zeros(w) == IF w = {} THEN 64 ELSE SetMin(w)

\* u64::next_power_of_two (release build: wraps to 0 above 2^63)
next_power_of_two(w) ==
    IF w = {} THEN {0}
    ELSE IF Cardinality(w) = 1 THEN w
    ELSE {SetMax(w) + 1} \cap (0..63)

\* w >> n
Shr(w, n) == {sb - n : sb \in {hb \in w : hb >= n}}

\* a < b on words
U64Less(a, b) == a # b /\ SetMax((a \ b) \cup (b \ a)) \in b

\* std::cmp::max on words
U64Max(a, b) == IF U64Less(a, b) THEN b ELSE a

MIN_TRAILING_ZEROS == trailing_zeros(U64(MIN_SZ))

(***************************************************************************)
(* Size-class codec and HeapId.                                            *)
(***************************************************************************)
slab_id_to_size(slab_id) == {MIN_TRAILING_ZEROS + slab_id} \cap (0..63)

\* a faulty class that rounds the size down to a power of two
size_to_slab_id_rounds_down(size) ==
    LET normalized_size == U64Max(U64(MIN_SZ), {SetMax(size \cup {0})})
        rebased_size == Shr(normalized_size, MIN_TRAILING_ZEROS)
    IN trailing_zeros(rebased_size)

size_to_slab_id(size) ==
    LET normalized_size == U64Max(U64(MIN_SZ), next_power_of_two(size))
        rebased_size == Shr(normalized_size, MIN_TRAILING_ZEROS)
    IN trailing_zeros(rebased_size)

slab_size(size) == slab_id_to_size(size_to_slab_id(size))

\* HeapId::compose on words: 1 << (32 + slab_id) | slab_idx as u64
HeapId_compose(slab_id, idx_word) == ({32 + slab_id} \cap (0..63)) \cup idx_word

\* a faulty decompose whose index mask is one bit short
HeapId_decompose_short_mask(heap_id) ==
    <<trailing_zeros(Shr(heap_id, 32)), heap_id \cap (0..30)>>

\* HeapId::decompose on words: <<the class, self.0 & IDX_MASK>>
HeapId_decompose(heap_id) ==
    <<trailing_zeros(Shr(heap_id, 32)), heap_id \cap (0..31)>>

\* HeapId::compose for a slot index that is a natural below 2^31
compose(slab_id, slab_idx) == HeapId_compose(slab_id, U64(slab_idx))

\* HeapId::decompose: <<slab_id, slab_idx>>, the index as a natural
decompose(heap_id) ==
    <<HeapId_decompose(heap_id)[1], NatOf(HeapId_decompose(heap_id)[2])>>

\* the slot size of a slab as a natural (only for the small classes in use)
BsOf(slab_id) == 2 ^ (MIN_TRAILING_ZEROS + slab_id)

(***************************************************************************)
(* CRC-32 (crc32fast::Hasher: the IEEE polynomial, reflected), on a 32-bit *)
(* register kept as <<high 16 bits, low 16 bits>>.                          *)
(***************************************************************************)
RECURSIVE XorN(_, _, _)
\* bitwise xor of the low n bits of a and b
XorN(a, b, n) ==
    IF n = 0 THEN 0 ELSE ((a + b) % 2) + 2 * XorN(a \div 2, b \div 2, n - 1)

\* materialised once: the equality makes the table an explicit function
XOR_TABLE ==
    LET tbl == [m \in 0..255 |-> [n \in 0..255 |-> XorN(m, n, 8)]]
    IN IF tbl = tbl THEN tbl ELSE tbl

Xor8(a, b) == XOR_TABLE[a][b]
Xor16(a, b) == Xor8(a \div 256, b \div 256) * 256 + Xor8(a % 256, b % 256)

\* 0xEDB88320
CRC_POLY == <<60856, 33568>>

CrcShift(c) ==
    LET hi == c[1] \div 2
        lo == (c[2] \div 2) + (c[1] % 2) * 32768
    IN IF c[2] % 2 = 1
       THEN <<Xor16(hi, CRC_POLY[1]), Xor16(lo, CRC_POLY[2])>>
       ELSE <<hi, lo>>

RECURSIVE CrcShiftN(_, _)
CrcShiftN(c, n) == IF n = 0 THEN c ELSE CrcShiftN(CrcShift(c), n - 1)

CRC_TABLE ==
    LET tbl == [n \in 0..255 |-> CrcShiftN(<<0, n>>, 8)]
    IN IF tbl = tbl THEN tbl ELSE tbl

\* Hasher::update with one byte
CrcUpdate(c, byte) ==
    LET te == CRC_TABLE[Xor8(c[2] % 256, byte)]
    IN <<Xor16(te[1], c[1] \div 256),
         Xor16(te[2], (c[2] \div 256) + (c[1] % 256) * 256)>>

RECURSIVE CrcFold(_, _, _, _)
\* Hasher::update with bytes[lo..hi]; the bytes are taken half by half, and
\* the register after the first half is forced before the second is begun,
\* so that the evaluation stays shallow
CrcFold(c, bytes, lo, hi) ==
    IF lo > hi THEN c
    ELSE IF lo = hi THEN CrcUpdate(c, bytes[lo])
    ELSE LET mid == (lo + hi) \div 2
             left == CrcFold(c, bytes, lo, mid)
         IN IF left[1] >= 0 THEN CrcFold(left, bytes, mid + 1, hi) ELSE left

\* Hasher::new, update(bytes), finalize
Crc32(bytes) ==
    LET fin == CrcFold(<<65535, 65535>>, bytes, 1, Len(bytes))
    IN <<65535 - fin[1], 65535 - fin[2]>>

\* u32::to_le_bytes of a register value
LeBytes(c) == <<c[2] % 256, c[2] \div 256, c[1] % 256, c[1] \div 256>>

(***************************************************************************)
(* The record a caller hands to complete: [kind][crc LE][payload], exactly *)
(* one slot long (the encoding is the caller's, spec section 4.6).         *)
(***************************************************************************)
Payload(seed, n) == [k \in 1..n |-> (seed * k) % 256]

Encode(kind, payload) == <<kind>> \o LeBytes(Crc32(<<kind>> \o payload)) \o payload

\* the record callers write into slot slab_idx: every slot gets a record of
\* its own, as <<kind, payload seed>>
RecordOf(slab_idx) == <<(slab_idx % 255) + 1, 7 + 2 * slab_idx>>

EncodedFor(slab_idx, bs) ==
    Encode(RecordOf(slab_idx)[1], Payload(RecordOf(slab_idx)[2], bs - 5))

\* the byte counts write_at may report for a buffer of len bytes: all of
\* it, or a short write (write_at, unlike write_all_at, does not retry)
WriteCounts(len) == {len, len \div 2}

\* the ways a complete on slot slab_idx of bs bytes can go, as
\* <<data, n, sync_ok>>: data is what the caller passes (the slot's record,
\* or a buffer one byte short of the slot), n the byte count write_at
\* reports (-1: an error), sync_ok whether sync_all succeeds
CompleteCases(slab_idx, bs) ==
    LET enc == EncodedFor(slab_idx, bs)
    IN {<<enc, n, ok>> : n \in WriteCounts(bs), ok \in BOOLEAN}
         \cup {<<enc, -1, TRUE>>, <<SubSeq(enc, 1, bs - 1), bs - 1, TRUE>>}

\* the sizes callers reserve: 20 (class 0), 2^47 + 1 and 2^48
ReserveSizes == {U64(20), {0, 47}, {48}}

(***************************************************************************)
(* Files.  A file is the sequence of its bytes; its length is the logical  *)
(* file length.                                                            *)
(***************************************************************************)
\* FileExt::write_at when the system call transfers n bytes of data at
\* offset: the file is extended as needed, a gap reads as zeros
write_at(f, data, n, offset) ==
    LET newlen == IF offset + n > Len(f) THEN offset + n ELSE Len(f)
    IN [k \in 1..newlen |->
          IF k > offset /\ k <= offset + n THEN data[k - offset]
          ELSE IF k <= Len(f) THEN f[k] ELSE 0]

\* FileExt::read_exact_at of bs bytes at offset: "eof" when the file ends
\* before the buffer is full
read_exact_at(f, bs, offset) ==
    IF offset + bs > Len(f) THEN [ok |-> FALSE, buf |-> <<>>]
    ELSE [ok |-> TRUE, buf |-> SubSeq(f, offset + 1, offset + bs)]

(***************************************************************************)
(* State.                                                                  *)
(***************************************************************************)
VARIABLES
    tip,        \* Slab.tip of each slab
    free,       \* Slab.free of each slab: a stack, top first
    file,       \* the bytes of each slab's file
    res,        \* per thread: the heap call it is in and its Reservation
    live,       \* HeapIds returned by complete and not yet passed to free
    pristine,   \* <<HeapId, data>>: the data complete was given, for every
                \* HeapId whose slot no one touched since complete returned
    freeing,    \* Slab::free calls between punch_hole and the push
    hole_punching_enabled,  \* the static HOLE_PUNCHING_ENABLED
    epoch,      \* how often the heap was started again
    last        \* what the call that returned in the latest step returned

vars == <<tip, free, file, res, live, pristine, freeing,
          hole_punching_enabled, epoch, last>>

NoRet == [op |-> "none"]

Idle == [pc |-> "idle"]

\* the Reservation Slab::reserve builds (heap.rs 299-307), with the history
\* of what was done with it
NewReservation(slab_id, idx, size, via, seen_tip) ==
    [pc |-> "open", slab |-> slab_id, idx |-> idx, offset |-> idx * BsOf(slab_id),
     size |-> size, completed |-> FALSE, stability_cb |-> "some",
     log |-> <<"alloc">>, cb_args |-> <<>>, via |-> via, seen_tip |-> seen_tip]

\* r is a Reservation no one has completed or dropped yet
Open(r) == r.pc = "open"

\* max_idx = len / bs for a slot size that is a power of two
MaxIdx(len, slab_id) ==
    IF MIN_TRAILING_ZEROS + slab_id > 30 THEN 0 ELSE len \div BsOf(slab_id)

heap_vars == <<tip, free, file, res, live, pristine, freeing,
               hole_punching_enabled, epoch>>

\* Heap::start on an empty directory: every file is created empty
HeapFresh ==
    /\ file = [s \in SlabIds |-> <<>>]
    /\ tip = [s \in SlabIds |-> MaxIdx(0, s)]
    /\ free = [s \in SlabIds |-> <<>>]
    /\ res = [t \in Threads |-> Idle]
    /\ live = {}
    /\ pristine = {}
    /\ freeing = {}
    /\ hole_punching_enabled = FALSE
    /\ epoch = 0

Init == HeapFresh /\ last = NoRet

(***************************************************************************)
(* The free list (crate::stack::Stack, a lock-free stack): push and pop    *)
(* are single atomic steps.                                                *)
(***************************************************************************)
StackPush(stk, v) == <<v>> \o stk
StackTop(stk) == Head(stk)
StackPopped(stk) == Tail(stk)

\* a faulty pop that never finds an index
Slab_reserve_never_pops(stk) == [some |-> FALSE, idx |-> 0, rest |-> stk]

\* a faulty pop that leaves the index it returns on the stack
Slab_reserve_pop_keeps(stk) ==
    IF stk # <<>>
    THEN [some |-> TRUE, idx |-> StackTop(stk), rest |-> stk]
    ELSE [some |-> FALSE, idx |-> 0, rest |-> stk]

\* self.free.pop(&pin()) in Slab::reserve: whether an index was popped,
\* the index, and the stack that is left
Slab_reserve_pop(stk) ==
    IF stk # <<>>
    THEN [some |-> TRUE, idx |-> StackTop(stk), rest |-> StackPopped(stk)]
    ELSE [some |-> FALSE, idx |-> 0, rest |-> stk]

\* faulty counters: one that loses the increment, one that returns the new
\* value
fetch_add_lost(v) == [old |-> v, new |-> v]

fetch_add_returns_new(v) == [old |-> v + 1, new |-> v + 1]

\* self.tip.fetch_add(1, Acquire) on a tip of v: the value returned and the
\* value stored (MaxTip keeps the tip far below 2^32, where it would wrap)
fetch_add(v) == [old |-> v, new |-> v + 1]

\* faulty drops: one that pushes whether or not r is completed, one that
\* never pushes
Drop_unconditional(r) == [free EXCEPT ![r.slab] = StackPush(@, r.idx)]

Drop_leaks(r) == free

\* Drop for Reservation: the free lists after r is dropped
Drop(r) ==
    IF ~r.completed
    THEN [free EXCEPT ![r.slab] = StackPush(@, r.idx)]
    ELSE free

\* the entries of pristine that do not lie in slot idx of slab slab_id
Untouched(slab_id, idx) ==
    {e \in pristine : decompose(e[1]) # <<slab_id, idx>>}

\* what a call that ends Reservation r returns (out, and id when out is
\* "ok"), with what was done with r
Ended(op, t, r, out, id) ==
    [op |-> op, t |-> t, out |-> out, id |-> id, slab |-> r.slab,
     idx |-> r.idx, log |-> r.log, cb_args |-> r.cb_args,
     completed |-> r.completed]

\* a faulty callback invocation that passes the slot index
Callback_with_idx(r, slab_id) ==
    [r EXCEPT !.stability_cb = "none",
              !.log = Append(@, "cb"),
              !.cb_args = Append(@, r.idx)]

\* if let Some(stability_cb) = self.stability_cb.take() { stability_cb(slab_id) }
Callback(r, slab_id) ==
    [r EXCEPT !.stability_cb = "none",
              !.log = Append(@, "cb"),
              !.cb_args = Append(@, slab_id)]

GrowingOn(slab_id) ==
    Cardinality({t \in Threads : res[t].pc = "grow" /\ res[t].slab = slab_id})

(***************************************************************************)
(* Heap::reserve and the first step of Slab::reserve: the pop.             *)
(***************************************************************************)
Heap_reserve(t, size) ==
    /\ res[t].pc = "idle"
    /\ UNCHANGED <<tip, file, live, pristine, freeing, hole_punching_enabled, epoch>>
    /\ IF ~U64Less(size, {48})
       THEN \* assert!(size < 1 << 48)
            /\ last' = [op |-> "reserve", t |-> t, out |-> "panic_assert",
                         size |-> size]
            /\ UNCHANGED <<res, free>>
       ELSE LET slab_id == size_to_slab_id(size) IN
            IF slab_id \notin SlabIds
            THEN \* self.slabs[slab_id as usize]: index out of bounds
                 /\ last' = [op |-> "reserve", t |-> t, out |-> "panic_index",
                              size |-> size]
                 /\ UNCHANGED <<res, free>>
            ELSE IF Slab_reserve_pop(free[slab_id]).some
            THEN /\ res' = [res EXCEPT ![t] =
                        NewReservation(slab_id, Slab_reserve_pop(free[slab_id]).idx,
                                       size, "free", 0)]
                 /\ free' = [free EXCEPT ![slab_id] = Slab_reserve_pop(@).rest]
                 /\ last' = NoRet
            ELSE /\ tip[slab_id] + GrowingOn(slab_id) < MaxTip
                 /\ res' = [res EXCEPT ![t] =
                        [pc |-> "grow", slab |-> slab_id, size |-> size,
                         seen_tip |-> tip[slab_id]]]
                 /\ last' = NoRet
                 /\ UNCHANGED free

\* Slab::reserve when the pop found nothing: self.tip.fetch_add(1)
Slab_reserve_tip(t) ==
    /\ res[t].pc = "grow"
    /\ LET slab_id == res[t].slab IN
       /\ res' = [res EXCEPT ![t] =
              NewReservation(slab_id, fetch_add(tip[slab_id]).old, res[t].size,
                             "tip", res[t].seen_tip)]
       /\ tip' = [tip EXCEPT ![slab_id] = fetch_add(@).new]
    /\ last' = NoRet
    /\ UNCHANGED <<free, file, live, pristine, freeing, hole_punching_enabled, epoch>>

(***************************************************************************)
(* Reservation::abort, or the Reservation going out of scope.              *)
(***************************************************************************)
Reservation_abort(t) ==
    /\ res[t].pc = "open"
    /\ free' = Drop(res[t])
    /\ res' = [res EXCEPT ![t] = Idle]
    /\ last' = Ended("abort", t, res[t], "abandoned", {})
    /\ UNCHANGED <<tip, file, live, pristine, freeing, hole_punching_enabled, epoch>>

(***************************************************************************)
(* Reservation::complete.  Between write_at and its return complete only   *)
(* touches its own Reservation, so the call is one step; its outcome is    *)
(* decided by what the two system calls report.                            *)
(***************************************************************************)
\* n: the byte count write_at reports, -1 for an error; sync_ok: whether
\* sync_all succeeds
Reservation_complete(t, data, n, sync_ok) ==
    /\ res[t].pc = "open"
    /\ UNCHANGED <<tip, freeing, hole_punching_enabled, epoch>>
    /\ IF Len(data) # NatOf(slab_size(res[t].size))
       THEN \* assert_eq!(data.len(), slab_size(self.size)) unwinds
            /\ free' = Drop(res[t])
            /\ res' = [res EXCEPT ![t] = Idle]
            /\ last' = Ended("complete", t, res[t], "panic_len", {})
            /\ UNCHANGED <<file, live, pristine>>
       ELSE IF n < 0
       THEN \* self.file.write_at(data, self.offset)? returns the error
            /\ free' = Drop(res[t])
            /\ res' = [res EXCEPT ![t] = Idle]
            /\ last' = Ended("complete", t, res[t], "io_error", {})
            /\ UNCHANGED <<file, live, pristine>>
       ELSE LET written == [res[t] EXCEPT !.log = Append(@, "write")] IN
            /\ file' = [file EXCEPT ![res[t].slab] =
                           write_at(@, data, n, res[t].offset)]
            /\ IF ~sync_ok
               THEN \* self.file.sync_all()? returns the error
                    /\ free' = Drop(written)
                    /\ res' = [res EXCEPT ![t] = Idle]
                    /\ last' = Ended("complete", t, written, "io_error", {})
                    /\ pristine' = Untouched(res[t].slab, res[t].idx)
                    /\ UNCHANGED live
               ELSE LET synced == [written EXCEPT !.log = Append(@, "sync"),
                                                  !.completed = TRUE]
                        slab_id == size_to_slab_id(res[t].size)
                        called == Callback(synced, slab_id)
                        heap_id == compose(slab_id, res[t].idx)
                    IN /\ free' = Drop(called)
                       /\ res' = [res EXCEPT ![t] = Idle]
                       /\ live' = live \cup {heap_id}
                       /\ pristine' = Untouched(res[t].slab, res[t].idx)
                                         \cup {<<heap_id, data>>}
                       /\ last' = Ended("complete", t,
                                        [called EXCEPT !.log = Append(@, "ret")],
                                        "ok", heap_id)

(***************************************************************************)
(* Heap::read and Slab::read (use_compression = false).                    *)
(***************************************************************************)
\* MessageKind::from(u8) of crate::pagecache: the kind is byte 0 of the slot
MessageKind_from(byte) == byte

\* a faulty read that does not compare the checksums
Slab_read_unchecked(f, bs, slab_idx) ==
    LET rd == read_exact_at(f, bs, slab_idx * bs)
    IN IF ~rd.ok THEN [out |-> "io_error"]
       ELSE [out |-> "ok", kind |-> MessageKind_from(rd.buf[1]),
             buf |-> SubSeq(rd.buf, 6, bs)]

\* what Slab::read returns for slot slab_idx of file f with slots of bs bytes
Slab_read(f, bs, slab_idx) ==
    LET offset == slab_idx * bs
        rd == read_exact_at(f, bs, offset)
        heap_buf == rd.buf
    IN IF ~rd.ok THEN [out |-> "io_error"]
       ELSE LET stored_crc == SubSeq(heap_buf, 2, 5)
                actual_crc == LeBytes(Crc32(SubSeq(heap_buf, 1, 1)
                                              \o SubSeq(heap_buf, 6, bs)))
            IN IF actual_crc = stored_crc
               THEN [out |-> "ok", kind |-> MessageKind_from(heap_buf[1]),
                     buf |-> SubSeq(heap_buf, 6, bs)]
               ELSE [out |-> "corruption"]

\* what Heap::read returns for heap_id
Heap_read_result(heap_id) ==
    LET d == decompose(heap_id)
    IN Slab_read(file[d[1]], BsOf(d[1]), d[2])

Heap_read(heap_id) ==
    /\ heap_id \in live
    /\ last' = [op |-> "read", id |-> heap_id, ret |-> Heap_read_result(heap_id)]
    /\ UNCHANGED <<tip, free, file, res, live, pristine, freeing,
                   hole_punching_enabled, epoch>>

(***************************************************************************)
(* Heap::free and Slab::free: punch_hole, then the push.                   *)
(***************************************************************************)
\* fallocate(PUNCH_HOLE | KEEP_SIZE) over slot idx: the bytes of the range
\* that lie within the file read as zeros, the length stays
Punched(f, bs, idx) ==
    [k \in 1..Len(f) |-> IF k > idx * bs /\ k <= (idx + 1) * bs THEN 0 ELSE f[k]]

\* a faulty punch_hole that reports an error when punching is switched off
punch_hole_off_is_error(f, bs, idx, enabled, ret) ==
    IF enabled
    THEN IF ret = 0
         THEN [ok |-> TRUE, file |-> Punched(f, bs, idx), enabled |-> TRUE,
               attempted |-> TRUE]
         ELSE [ok |-> TRUE, file |-> f, enabled |-> FALSE, attempted |-> TRUE]
    ELSE [ok |-> FALSE, file |-> f, enabled |-> FALSE, attempted |-> FALSE]

\* Slab::punch_hole on slot idx of file f: whether it returns Ok, the file
\* and HOLE_PUNCHING_ENABLED afterwards, and whether fallocate was called;
\* ret is what fallocate returns when it is called
punch_hole(f, bs, idx, enabled, ret) ==
    IF enabled
    THEN IF ret = 0
         THEN [ok |-> TRUE, file |-> Punched(f, bs, idx), enabled |-> TRUE,
               attempted |-> TRUE]
         ELSE [ok |-> TRUE, file |-> f, enabled |-> FALSE, attempted |-> TRUE]
    ELSE [ok |-> TRUE, file |-> f, enabled |-> FALSE, attempted |-> FALSE]

\* Heap::free(heap_id) up to the return of self.punch_hole(idx)?
Heap_free(heap_id, ret) ==
    /\ heap_id \in live
    /\ LET d == decompose(heap_id)
           p == punch_hole(file[d[1]], BsOf(d[1]), d[2], hole_punching_enabled, ret)
       IN /\ live' = live \ {heap_id}
          /\ pristine' = Untouched(d[1], d[2])
          /\ file' = [file EXCEPT ![d[1]] = p.file]
          /\ hole_punching_enabled' = p.enabled
          /\ IF p.ok
             THEN /\ freeing' = freeing \cup {d}
                  /\ last' = [op |-> "punch_hole", id |-> heap_id,
                              attempted |-> p.attempted, ret |-> ret]
             ELSE /\ freeing' = freeing
                  /\ last' = [op |-> "free", out |-> "io_error",
                              slab |-> d[1], idx |-> d[2]]
    /\ UNCHANGED <<tip, free, res, epoch>>

\* a faulty free that cuts the file off at the freed slot
Slab_free_truncates(d) ==
    /\ d \in freeing
    /\ free' = [free EXCEPT ![d[1]] = StackPush(@, d[2])]
    /\ freeing' = freeing \ {d}
    /\ file' = [file EXCEPT ![d[1]] =
                   IF d[2] * BsOf(d[1]) < Len(@)
                   THEN SubSeq(@, 1, d[2] * BsOf(d[1])) ELSE @]
    /\ last' = [op |-> "free", out |-> "ok", slab |-> d[1], idx |-> d[2]]
    /\ UNCHANGED <<tip, res, live, pristine, hole_punching_enabled, epoch>>

\* self.free.push(idx), Ok(())
Slab_free_push(d) ==
    /\ d \in freeing
    /\ free' = [free EXCEPT ![d[1]] = StackPush(@, d[2])]
    /\ freeing' = freeing \ {d}
    /\ last' = [op |-> "free", out |-> "ok", slab |-> d[1], idx |-> d[2]]
    /\ UNCHANGED <<tip, file, res, live, pristine, hole_punching_enabled, epoch>>

(***************************************************************************)
(* The process ends and Heap::start runs on the same directory: the files  *)
(* and the callers' stored HeapIds stay, everything in memory is new.      *)
(***************************************************************************)
\* a faulty recovery that counts a slot the file ends in
Slab_start_tip_rounds_up(slab_id) ==
    IF MIN_TRAILING_ZEROS + slab_id > 30 THEN 0
    ELSE (Len(file[slab_id]) + BsOf(slab_id) - 1) \div BsOf(slab_id)

\* Slab::start: the tip recovered from the file of slab_id
Slab_start_tip(slab_id) == MaxIdx(Len(file[slab_id]), slab_id)

Heap_start ==
    /\ epoch < MaxRestarts
    /\ epoch' = epoch + 1
    /\ tip' = [s \in SlabIds |-> Slab_start_tip(s)]
    /\ free' = [s \in SlabIds |-> <<>>]
    /\ res' = [t \in Threads |-> Idle]
    /\ freeing' = {}
    /\ hole_punching_enabled' = FALSE
    /\ last' = [op |-> "start", tip_before |-> tip, free_before |-> free]
    /\ UNCHANGED <<file, live, pristine>>

(***************************************************************************)
(* The storage alters a byte of a stored record behind the heap's back.    *)
(***************************************************************************)
\* the bytes of slot slab_idx in file f with slots of bs bytes
SlotBytes(f, bs, slab_idx) == SubSeq(f, slab_idx * bs + 1, (slab_idx + 1) * bs)

\* the positions in a slot of bs bytes at which a byte is altered: the kind,
\* the first and last byte of the stored checksum, the first and last byte
\* of the payload
CorruptPositions(bs) == {1, 2, 5, 6, bs}

\* the lowest bit of byte pos of the slot of heap_id flips, while the slot
\* holds what complete wrote
Corrupt(heap_id, pos) ==
    /\ heap_id \in live
    /\ LET d == decompose(heap_id)
           bs == BsOf(d[1])
       IN /\ (d[2] + 1) * bs <= Len(file[d[1]])
          /\ <<heap_id, SlotBytes(file[d[1]], bs, d[2])>> \in pristine
          /\ file' = [file EXCEPT ![d[1]] =
                         [@ EXCEPT ![d[2] * bs + pos] =
                              IF @ % 2 = 0 THEN @ + 1 ELSE @ - 1]]
          /\ pristine' = Untouched(d[1], d[2])
    /\ last' = [op |-> "corrupt", id |-> heap_id, pos |-> pos]
    /\ UNCHANGED <<tip, free, res, live, freeing, hole_punching_enabled, epoch>>

(***************************************************************************)
(* The heap under concurrent callers.                                      *)
(***************************************************************************)
Next ==
    \/ \E t \in Threads, size \in ReserveSizes : Heap_reserve(t, size)
    \/ \E t \in Threads : Slab_reserve_tip(t)
    \/ \E t \in Threads : Reservation_abort(t)
    \/ \E t \in Threads :
         /\ res[t].pc = "open"
         /\ \E c \in CompleteCases(res[t].idx, BsOf(res[t].slab)) :
              Reservation_complete(t, c[1], c[2], c[3])
    \/ \E heap_id \in live : Heap_read(heap_id)
    \/ \E heap_id \in live :
         \E ret \in IF hole_punching_enabled THEN {0, -1} ELSE {0} :
           Heap_free(heap_id, ret)
    \/ \E d \in freeing : Slab_free_push(d)

Spec == Init /\ [][Next]_vars

\* the heap is started again between calls: reservations are made, dropped
\* and completed (sync_all does not fail), and Heap::start runs again
NextRestart ==
    \/ \E t \in Threads : Heap_reserve(t, U64(20))
    \/ \E t \in Threads : Slab_reserve_tip(t)
    \/ \E t \in Threads : Reservation_abort(t)
    \/ \E t \in Threads :
         /\ res[t].pc = "open"
         /\ \E c \in {cc \in CompleteCases(res[t].idx, BsOf(res[t].slab)) :
                        cc[2] >= BsOf(res[t].slab) \div 2 /\ cc[3]} :
              Reservation_complete(t, c[1], c[2], c[3])
    \/ Heap_start

SpecRestart == Init /\ [][NextRestart]_vars

\* records are written and read while the storage alters bytes
NextCorrupt ==
    \/ \E t \in Threads : Heap_reserve(t, U64(20))
    \/ \E t \in Threads : Slab_reserve_tip(t)
    \/ \E t \in Threads :
         /\ res[t].pc = "open"
         /\ \E c \in {cc \in CompleteCases(res[t].idx, BsOf(res[t].slab)) :
                        cc[2] >= BsOf(res[t].slab) \div 2 /\ cc[3]} :
              Reservation_complete(t, c[1], c[2], c[3])
    \/ \E heap_id \in live : Heap_read(heap_id)
    \/ \E heap_id \in live :
         \E pos \in CorruptPositions(BsOf(decompose(heap_id)[1])) :
           Corrupt(heap_id, pos)

SpecCorrupt == Init /\ [][NextCorrupt]_vars

(***************************************************************************)
(* The size-class codec and HeapId on their own: a size, or a class and an *)
(* index, is drawn, and the functions are applied to it.                   *)
(***************************************************************************)
\* sizes s with 0 < s < 2^48: 2^k, 2^k + 1 and 2^(k+1) - 1
CodecSizes == UNION {{{k}, {0, k}, 0..k} : k \in 0..47}

\* 32-bit slot indices, as words
CodecIndices == {{}, {0}, {31}, {0, 31}, {30}, 0..31, {15, 16}}

InitCodec ==
    /\ HeapFresh
    /\ last \in {[op |-> "size", size |-> sz] : sz \in CodecSizes}
                \cup {[op |-> "pair", slab_id |-> c, slab_idx |-> w] :
                         c \in SlabIds, w \in CodecIndices}

Codec_slab_size ==
    /\ last.op = "size"
    /\ last' = [op |-> "slab_size", size |-> last.size,
                slab_id |-> size_to_slab_id(last.size),
                ret |-> slab_size(last.size)]
    /\ UNCHANGED heap_vars

Codec_compose ==
    /\ last.op = "pair"
    /\ last' = [op |-> "compose", slab_id |-> last.slab_id,
                slab_idx |-> last.slab_idx,
                id |-> HeapId_compose(last.slab_id, last.slab_idx)]
    /\ UNCHANGED heap_vars

Codec_decompose ==
    /\ last.op = "compose"
    /\ last' = [op |-> "decompose", slab_id |-> last.slab_id,
                slab_idx |-> last.slab_idx, id |-> last.id,
                ret |-> HeapId_decompose(last.id)]
    /\ UNCHANGED heap_vars

NextCodec ==
    \/ Codec_slab_size
    \/ Codec_compose
    \/ Codec_decompose

SpecCodec == InitCodec /\ [][NextCodec]_vars

(***************************************************************************)
(* Bound (src/crates/sled/src/bound.rs): Inclusive(bytes), Exclusive(bytes) *)
(* and Inf, with the hand-written partial_cmp and the derived Ord and       *)
(* PartialEq.  An Option<Ordering> is a sequence of at most one ordering.   *)
(***************************************************************************)
Inclusive(v) == [variant |-> "Inclusive", v |-> v]
Exclusive(v) == [variant |-> "Exclusive", v |-> v]
Inf == [variant |-> "Inf"]

RECURSIVE VecCmp(_, _)
\* Ord::cmp of Vec<u8>: lexicographic
VecCmp(lhs, rhs) ==
    IF lhs = <<>> /\ rhs = <<>> THEN "Equal"
    ELSE IF lhs = <<>> THEN "Less"
    ELSE IF rhs = <<>> THEN "Greater"
    ELSE IF lhs[1] < rhs[1] THEN "Less"
    ELSE IF lhs[1] > rhs[1] THEN "Greater"
    ELSE VecCmp(Tail(lhs), Tail(rhs))

\* faulty comparisons: Exclusive against Inclusive with < for <=, and
\* Inclusive against Exclusive with <= for <
partial_cmp_excl_strict(self, other) ==
    IF self.variant = "Inclusive"
    THEN IF other.variant = "Inf" THEN <<"Less">>
         ELSE IF other.variant = "Inclusive" THEN <<VecCmp(self.v, other.v)>>
         ELSE IF VecCmp(self.v, other.v) = "Less" THEN <<"Less">>
         ELSE <<"Greater">>
    ELSE IF self.variant = "Exclusive"
    THEN IF other.variant = "Inf" THEN <<"Less">>
         ELSE IF other.variant = "Inclusive"
         THEN IF VecCmp(self.v, other.v) = "Less" THEN <<"Less">>
              ELSE <<"Greater">>
         ELSE <<VecCmp(self.v, other.v)>>
    ELSE IF other.variant = "Inf" THEN <<"Equal">>
         ELSE <<"Greater">>

partial_cmp_incl_lax(self, other) ==
    IF self.variant = "Inclusive"
    THEN IF other.variant = "Inf" THEN <<"Less">>
         ELSE IF other.variant = "Inclusive" THEN <<VecCmp(self.v, other.v)>>
         ELSE IF VecCmp(self.v, other.v) # "Greater" THEN <<"Less">>
         ELSE <<"Greater">>
    ELSE IF self.variant = "Exclusive"
    THEN IF other.variant = "Inf" THEN <<"Less">>
         ELSE IF other.variant = "Inclusive"
         THEN IF VecCmp(self.v, other.v) # "Greater" THEN <<"Less">>
              ELSE <<"Greater">>
         ELSE <<VecCmp(self.v, other.v)>>
    ELSE IF other.variant = "Inf" THEN <<"Equal">>
         ELSE <<"Greater">>

\* impl PartialOrd for Bound
partial_cmp(self, other) ==
    IF self.variant = "Inclusive"
    THEN IF other.variant = "Inf" THEN <<"Less">>
         ELSE IF other.variant = "Inclusive" THEN <<VecCmp(self.v, other.v)>>
         ELSE IF VecCmp(self.v, other.v) = "Less" THEN <<"Less">>
         ELSE <<"Greater">>
    ELSE IF self.variant = "Exclusive"
    THEN IF other.variant = "Inf" THEN <<"Less">>
         ELSE IF other.variant = "Inclusive"
         THEN IF VecCmp(self.v, other.v) # "Greater" THEN <<"Less">>
              ELSE <<"Greater">>
         ELSE <<VecCmp(self.v, other.v)>>
    ELSE IF other.variant = "Inf" THEN <<"Equal">>
         ELSE <<"Greater">>

\* the place of a variant in the declaration of the enum
Discriminant(b) ==
    IF b.variant = "Inclusive" THEN 0 ELSE IF b.variant = "Exclusive" THEN 1 ELSE 2

\* #[derive(Ord)]: by variant in the order of declaration, then by the field
Ord_cmp(self, other) ==
    IF Discriminant(self) < Discriminant(other) THEN "Less"
    ELSE IF Discriminant(self) > Discriminant(other) THEN "Greater"
    ELSE IF self.variant = "Inf" THEN "Equal"
    ELSE VecCmp(self.v, other.v)

\* #[derive(PartialEq)]: the same variant with equal fields
PartialEq_eq(self, other) ==
    /\ self.variant = other.variant
    /\ self.variant # "Inf" => self.v = other.v

KeyBytes == {0, 255}

Keys == UNION {[1..n -> KeyBytes] : n \in 0..MaxKeyLen}

Bounds == {Inclusive(k) : k \in Keys} \cup {Exclusive(k) : k \in Keys} \cup {Inf}

InitBound ==
    /\ HeapFresh
    /\ last \in {[op |-> "bounds", a |-> x, b |-> y, c |-> z] :
                    x \in Bounds, y \in Bounds, z \in Bounds}

Bound_compare ==
    /\ last.op = "bounds"
    /\ last' = [op |-> "compared", a |-> last.a, b |-> last.b, c |-> last.c,
                ab |-> partial_cmp(last.a, last.b),
                ba |-> partial_cmp(last.b, last.a),
                bc |-> partial_cmp(last.b, last.c),
                ac |-> partial_cmp(last.a, last.c),
                cmp_ab |-> Ord_cmp(last.a, last.b),
                eq_ab |-> PartialEq_eq(last.a, last.b)]
    /\ UNCHANGED heap_vars

NextBound == Bound_compare

SpecBound == InitBound /\ [][NextBound]_vars

(***************************************************************************)
(* Properties.                                                             *)
(***************************************************************************)
\* C1: in every reachable state no two Open reservations of the same slab
\* hold the same slot index, and so none have the same file offset
C1_NoSharedSlot ==
    \A t1, t2 \in Threads :
        (t1 # t2 /\ Open(res[t1]) /\ Open(res[t2]) /\ res[t1].slab = res[t2].slab)
            => (res[t1].idx # res[t2].idx /\ res[t1].offset # res[t2].offset)

\* two reservations of one slab are Open, one from the free list, one from the tip
C1_TwoOpen ==
    \E t1, t2 \in Threads :
        /\ Open(res[t1]) /\ Open(res[t2]) /\ res[t1].slab = res[t2].slab
        /\ res[t1].via = "free" /\ res[t2].via = "tip"

\* C2: a Reservation that leaves Open without complete returning Ok (abort
\* or drop, an I/O error, the wrong-length assertion) pushes its index onto
\* its slab's free list exactly once, and a reserve on that slab that follows
\* with nothing in between gets that index; one that leaves Open with Ok
\* pushes nothing
C2_LeavesOpenOnce ==
    [][/\ \A t \in Threads :
            (Open(res[t]) /\ ~Open(res'[t])) =>
                IF last'.op = "complete" /\ last'.out = "ok"
                THEN free' = free
                ELSE free' = [free EXCEPT ![res[t].slab] = <<res[t].idx>> \o @]
       /\ \A t \in Threads :
            (/\ last.op \in {"abort", "complete"}
             /\ last.out # "ok"
             /\ res[t].pc = "idle"
             /\ res'[t].pc # "idle"
             /\ res'[t].slab = last.slab)
                => (Open(res'[t]) /\ res'[t].idx = last.idx)]_vars

\* complete has unwound on the length assertion and the index is on top of
\* the free list
C2_Abandoned ==
    /\ last.op = "complete"
    /\ last.out = "panic_len"
    /\ free[last.slab] # <<>>
    /\ Head(free[last.slab]) = last.idx

\* C3: when write_at or sync_all fails in complete, complete returns an I/O
\* error and no identifier, the callback is not invoked, the reservation is
\* not marked completed, and its index goes onto the free list exactly once
C3_FailedComplete ==
    [][(last'.op = "complete" /\ last'.out = "io_error") =>
          /\ last'.id = {}
          /\ last'.cb_args = <<>>
          /\ ~last'.completed
          /\ last'.log \in {<<"alloc">>, <<"alloc", "write">>}
          /\ free' = [free EXCEPT ![last'.slab] = <<last'.idx>> \o @]
          /\ live' = live
          /\ res'[last'.t] = Idle]_vars

\* sync_all has failed after the write, and the index is back on the free list
C3_SyncFailed ==
    /\ last.op = "complete"
    /\ last.out = "io_error"
    /\ last.log = <<"alloc", "write">>
    /\ Head(free[last.slab]) = last.idx

\* C4: when complete returns Ok the events were allocate, write, sync,
\* callback, identifier returned, in that order, the callback ran once and
\* was given the size class; it never runs for a reservation that does not
\* end with Ok
C4_EventOrder ==
    /\ (last.op = "complete" /\ last.out = "ok") =>
          /\ last.log = <<"alloc", "write", "sync", "cb", "ret">>
          /\ last.cb_args = <<last.slab>>
          /\ last.completed
    /\ (last.op \in {"abort", "complete"} /\ last.out # "ok") =>
          /\ last.cb_args = <<>>
          /\ \A k \in DOMAIN last.log : last.log[k] \notin {"cb", "ret"}

\* complete has returned Ok for a slot whose index differs from its class
C4_Completed ==
    /\ last.op = "complete"
    /\ last.out = "ok"
    /\ last.idx # last.slab

\* C5: a read of an identifier whose slot no one touched since complete
\* returned it, for data laid out as [kind][CRC][payload], returns the kind
\* and the payload that complete was given
C5_RoundTrip ==
    \A e \in pristine :
        (/\ last.op = "read"
         /\ last.id = e[1]
         /\ SubSeq(e[2], 2, 5) =
                LeBytes(Crc32(<<e[2][1]>> \o SubSeq(e[2], 6, Len(e[2])))))
            => last.ret = [out |-> "ok", kind |-> MessageKind_from(e[2][1]),
                           buf |-> SubSeq(e[2], 6, Len(e[2]))]

\* C6: read returns a payload only when the checksum stored in the slot
\* equals the one recomputed over the kind byte and the payload bytes of the
\* slot as read, and then it is the payload of the slot; when the checksums
\* differ it returns a corruption error without a payload
C6_ChecksumGate ==
    last.op = "read" =>
        LET d == decompose(last.id)
            bs == BsOf(d[1])
            rd == read_exact_at(file[d[1]], bs, d[2] * bs)
            stored == SubSeq(rd.buf, 2, 5)
            recomputed == LeBytes(Crc32(<<rd.buf[1]>> \o SubSeq(rd.buf, 6, bs)))
        IN /\ last.ret.out = "ok" =>
                /\ rd.ok
                /\ stored = recomputed
                /\ last.ret.buf = SubSeq(rd.buf, 6, bs)
           /\ (rd.ok /\ stored # recomputed) => last.ret = [out |-> "corruption"]

\* a read of a slot that is all there has ended with a corruption error
C6_CorruptionSeen ==
    /\ last.op = "read"
    /\ last.ret.out = "corruption"
    /\ <<last.id, SlotBytes(file[decompose(last.id)[1]],
                            BsOf(decompose(last.id)[1]),
                            decompose(last.id)[2])>> \notin pristine

\* C7: reserve takes the top of the free list whenever the list is not
\* empty when it pops, and leaves the tip alone; the tip grows, by one, only
\* in a reserve whose pop found the list empty; the reserve that follows a
\* free gets the freed index, which lies below the tip
C7_ReuseBeforeGrowth ==
    [][/\ \A t \in Threads :
            (res[t].pc = "idle" /\ res'[t].pc # "idle") =>
                IF free[res'[t].slab] # <<>>
                THEN /\ Open(res'[t])
                     /\ res'[t].idx = Head(free[res'[t].slab])
                     /\ free' = [free EXCEPT ![res'[t].slab] = Tail(@)]
                     /\ tip' = tip
                ELSE /\ res'[t].pc = "grow"
                     /\ tip' = tip
                     /\ free' = free
       /\ \A s \in SlabIds :
            tip'[s] # tip[s] =>
                /\ tip'[s] = tip[s] + 1
                /\ \E t \in Threads :
                     /\ res[t].pc = "grow"
                     /\ res[t].slab = s
                     /\ Open(res'[t])
                     /\ res'[t].idx = tip[s]
       /\ \A t \in Threads :
            (/\ last.op = "free"
             /\ res[t].pc = "idle"
             /\ res'[t].pc # "idle"
             /\ res'[t].slab = last.slab)
                => (/\ Open(res'[t])
                    /\ res'[t].idx = last.idx
                    /\ res'[t].idx < tip[last.slab])]_vars

\* a reservation holds index 0 again, taken from the free list, after the
\* tip has moved past it
C7_Reused ==
    \E t \in Threads :
        /\ Open(res[t])
        /\ res[t].via = "free"
        /\ res[t].idx = 0
        /\ tip[res[t].slab] = MaxTip

\* C8: the reservations of one slab whose pops all found the free list
\* empty with the tip at T hold pairwise distinct indices from T up to the
\* tip; when the tip is T plus their number they hold exactly T .. T+N-1,
\* and it is that when every thread is among them
C8_ConcurrentGrowth ==
    \A s \in SlabIds, T \in 0..MaxTip :
        LET G == {t \in Threads : /\ Open(res[t])
                                  /\ res[t].via = "tip"
                                  /\ res[t].slab = s
                                  /\ res[t].seen_tip = T}
            got == {res[t].idx : t \in G}
            N == Cardinality(G)
        IN G # {} =>
             /\ Cardinality(got) = N
             /\ got \subseteq T..(tip[s] - 1)
             /\ tip[s] >= T + N
             /\ (tip[s] = T + N) => got = T..(T + N - 1)
             /\ (G = Threads) => tip[s] = T + N

\* every thread holds a reservation taken from the tip, all of whose pops
\* saw the same tip
C8_AllGrew ==
    \E s \in SlabIds :
        \A t \in Threads :
            /\ Open(res[t])
            /\ res[t].via = "tip"
            /\ res[t].slab = s
            /\ res[t].seen_tip = 0

\* C9: right after Heap::start every slab's tip is floor(file length / slot
\* size) and every free list is empty
C9_RecoveredTip ==
    last.op = "start" =>
        \A s \in SlabIds :
            /\ free[s] = <<>>
            /\ IF MIN_TRAILING_ZEROS + s > 30
               THEN Len(file[s]) = 0 /\ tip[s] = 0
               ELSE /\ tip[s] * BsOf(s) <= Len(file[s])
                    /\ Len(file[s]) < (tip[s] + 1) * BsOf(s)

\* the heap was started on a file that ends within a slot, with another tip
\* and a free list that was not empty in memory before
C9_Restarted ==
    /\ last.op = "start"
    /\ last.tip_before[0] # tip[0]
    /\ last.free_before[0] # <<>>
    /\ Len(file[0]) % BsOf(0) # 0

\* C10: every size that passes the assertion of Heap::reserve has a size
\* class below 32
C10_ClassBelow32 ==
    (last.op = "reserve" /\ U64Less(last.size, {48}))
        => size_to_slab_id(last.size) < NUM_SLABS

\* C11: for every size s with 0 < s < 2^48 the slot size of its class,
\* slab_id_to_size(size_to_slab_id(s)), is at least s, and no slot size
\* MIN_SZ << k that is at least s is smaller
C11_SmallestSlot ==
    last.op = "slab_size" =>
        /\ last.ret = slab_id_to_size(last.slab_id)
        /\ ~U64Less(last.ret, last.size)
        /\ \A k \in 0..(63 - MIN_TRAILING_ZEROS) :
              ~U64Less({MIN_TRAILING_ZEROS + k}, last.size)
                  => ~U64Less({MIN_TRAILING_ZEROS + k}, last.ret)

\* the slot size was computed for a size above the smallest slot that is not
\* a power of two
C11_RoundedUp ==
    /\ last.op = "slab_size"
    /\ Cardinality(last.size) > 1
    /\ U64Less(U64(MIN_SZ), last.size)
    /\ U64Less(last.size, last.ret)

\* C12: for every class below 32 and every 32-bit index, decompose of
\* compose(class, index) is (class, index), and no other (class, index)
\* composes to the same identifier
C12_ComposeRoundTrip ==
    last.op = "decompose" =>
        /\ last.ret = <<last.slab_id, last.slab_idx>>
        /\ \A c \in SlabIds, w \in CodecIndices :
              <<c, w>> # <<last.slab_id, last.slab_idx>>
                  => HeapId_compose(c, w) # last.id

\* the identifier of the last class with the top bit of the index set went
\* through compose and decompose
C12_TopBits ==
    /\ last.op = "decompose"
    /\ last.slab_id = NUM_SLABS - 1
    /\ 31 \in last.slab_idx

\* C13: free pushes the index only in a step after punch_hole has returned
\* for that slot, it does so after every outcome of punch_hole, and free
\* never returns an error
C13_PushAfterPunch ==
    [][/\ last'.op = "free" =>
            /\ last'.out = "ok"
            /\ <<last'.slab, last'.idx>> \in freeing
            /\ free' = [free EXCEPT ![last'.slab] = <<last'.idx>> \o @]
       /\ last'.op = "punch_hole" =>
            /\ free' = free
            /\ decompose(last'.id) \in freeing']_vars

\* a free has returned Ok with the index on top of the free list
C13_Freed ==
    /\ last.op = "free"
    /\ last.out = "ok"
    /\ Head(free[last.slab]) = last.idx

\* C14: the hole-punching flag starts enabled; fallocate is called exactly
\* when the flag is enabled; the flag is switched off by a call of fallocate
\* that fails and by nothing else, and is never switched on again
C14_FlagLifecycle ==
    /\ hole_punching_enabled = TRUE
    /\ [][/\ hole_punching_enabled' => hole_punching_enabled
          /\ (hole_punching_enabled /\ ~hole_punching_enabled') =>
                (last'.op = "punch_hole" /\ last'.attempted /\ last'.ret # 0)
          /\ last'.op = "punch_hole" =>
                /\ last'.attempted <=> hole_punching_enabled
                /\ (last'.attempted /\ last'.ret # 0) => ~hole_punching_enabled'
         ]_vars

\* C15: partial_cmp always returns an ordering; it returns Equal exactly
\* for two bounds of the same variant with equal bytes; a < b exactly when
\* b > a; and it is transitive
C15_TotalOrder ==
    last.op = "compared" =>
        /\ last.ab \in {<<"Less">>, <<"Equal">>, <<"Greater">>}
        /\ (last.ab = <<"Equal">>) <=> (last.a = last.b)
        /\ (last.ab = <<"Less">>) <=> (last.ba = <<"Greater">>)
        /\ (last.ab = <<"Equal">>) <=> (last.ba = <<"Equal">>)
        /\ (last.ab # <<"Greater">> /\ last.bc # <<"Greater">>) =>
              /\ last.ac # <<"Greater">>
              /\ (last.ab = <<"Less">> \/ last.bc = <<"Less">>) => last.ac = <<"Less">>

\* three bounds of three variants, the first two with the same bytes, were
\* compared and are in ascending order
C15_Chain ==
    /\ last.op = "compared"
    /\ last.a.variant = "Exclusive"
    /\ last.b.variant = "Inclusive"
    /\ last.c.variant = "Inf"
    /\ last.a.v = last.b.v
    /\ Len(last.a.v) = MaxKeyLen
    /\ last.ab = <<"Less">>
    /\ last.bc = <<"Less">>

\* C16: Inclusive(k) > Exclusive(k) for every k; Inf is greater than every
\* Inclusive and every Exclusive bound; two bounds of the same variant with
\* the same bytes, and Inf and Inf, are equal
C16_BoundFacts ==
    last.op = "compared" =>
        /\ (/\ last.a.variant = "Inclusive"
            /\ last.b.variant = "Exclusive"
            /\ last.a.v = last.b.v) =>
              (last.ab = <<"Greater">> /\ last.ba = <<"Less">>)
        /\ (last.a.variant = "Inf" /\ last.b.variant # "Inf") =>
              (last.ab = <<"Greater">> /\ last.ba = <<"Less">>)
        /\ (last.a = last.b) => (last.eq_ab /\ last.ab = <<"Equal">>)
        /\ last.eq_ab => (last.a = last.b)

\* Inclusive(k) was compared with Exclusive(k) for a k that is not empty
C16_SameKey ==
    /\ last.op = "compared"
    /\ last.a.variant = "Inclusive"
    /\ last.b.variant = "Exclusive"
    /\ last.a.v = last.b.v
    /\ last.a.v # <<>>
    /\ last.ab = <<"Greater">>

\* C17: a step of free leaves every tip, the length of every file, every
\* Reservation, and the file and the free list of every other slab as they
\* were
C17_FreeFrame ==
    [][last'.op \in {"punch_hole", "free"} =>
          LET slab_id == IF last'.op = "free" THEN last'.slab
                         ELSE decompose(last'.id)[1]
          IN /\ tip' = tip
             /\ res' = res
             /\ \A s \in SlabIds :
                   /\ Len(file'[s]) = Len(file[s])
                   /\ s # slab_id => (free'[s] = free[s] /\ file'[s] = file[s])
      ]_vars

\* a free has returned for a slot that lies within its file while another
\* caller holds an Open reservation
C17_FreedBesideOpen ==
    /\ last.op = "free"
    /\ last.out = "ok"
    /\ (last.idx + 1) * BsOf(last.slab) <= Len(file[last.slab])
    /\ \E t \in Threads : Open(res[t]) /\ res[t].slab = last.slab

\* the indices of slab s on its free list, held by Open reservations, and
\* of identifiers complete returned whose free has not returned
FreeListed(s) == {free[s][k] : k \in 1..Len(free[s])}

HeldOpen(s) == {res[t].idx : t \in {u \in Threads : Open(res[u]) /\ res[u].slab = s}}

CompletedNotFreed(s) ==
    {decompose(id)[2] : id \in {i \in live : decompose(i)[1] = s}}
        \cup {d[2] : d \in {e \in freeing : e[1] = s}}

\* C18: in every state reached by reserve, complete, drop, abort and free,
\* no free list holds an index twice, every index on a free list or held by
\* an Open reservation is below the tip of its slab, and no index is in two
\* of: the free list, held by an Open reservation, completed and not freed
C18_Partition ==
    \A s \in SlabIds :
        /\ Cardinality(FreeListed(s)) = Len(free[s])
        /\ \A i \in FreeListed(s) \cup HeldOpen(s) : i < tip[s]
        /\ FreeListed(s) \cap HeldOpen(s) = {}
        /\ FreeListed(s) \cap CompletedNotFreed(s) = {}
        /\ HeldOpen(s) \cap CompletedNotFreed(s) = {}
        /\ \A t, u \in Threads :
              (Open(res[t]) /\ Open(res[u]) /\ res[t].slab = s /\ res[u].slab = s
                  /\ res[t].idx = res[u].idx) => t = u

\* a slab has an index on its free list that free put there, another held
\* by an Open reservation, and is grown to its bound
C18_AllKinds ==
    \E s \in SlabIds :
        /\ last.op = "free"
        /\ last.slab = s
        /\ last.idx \in FreeListed(s)
        /\ HeldOpen(s) # {}
        /\ tip[s] = MaxTip

\* C19: right after Heap::start the tip of every slab is above the index of
\* every identifier complete returned before
C19_TipAboveCompleted ==
    last.op = "start" =>
        \A id \in live : decompose(id)[2] < tip[decompose(id)[1]]

\* C20: for every pair of bounds the derived Ord::cmp returns the ordering
\* that partial_cmp returns
C20_OrdAgrees ==
    last.op = "compared" => <<last.cmp_ab>> = last.ab

====
